---- MODULE Spec2Model ----
(***************************************************************************)
(* Contact-List-Manager: the contact persistence and validation core.      *)
(*                                                                         *)
(*   backend/src/config/database.js       ContactDatabase (SQLite), Contact *)
(*   backend/src/services/contactService.js   ContactService               *)
(*   unnamed/part_001 (server.js)         the express routes               *)
(*   backend/scripts/init-db.js           the seeded database              *)
(*                                                                         *)
(* Strings are sequences of one-character strings, so that trimming, the   *)
(* regular expressions, LIKE patterns, parseInt and toString are computed  *)
(* character by character as the code computes them.                       *)
(***************************************************************************)
EXTENDS Integers, Sequences, FiniteSets

VARIABLES
    contacts,   \* rows of the contacts table: [id, name, email, created_at]
    seq,        \* sqlite_sequence of the AUTOINCREMENT key: largest id ever assigned
    now,        \* the wall clock, in the units datetime('now') resolves (seconds)
    proc,       \* proc[p]: the request client p has in flight, and its outcome
    created,    \* the inserts that succeeded since the server started
    removed,    \* the deletes that removed a row since the server started
    seeded,     \* the rows the table held when the server started
    returned,   \* the contacts creates returned to their callers, less those deleted since
    vin,        \* the candidate (name, email) handed to the validators
    vout,       \* the verdicts recorded for vin, or NoVerdict
    ui,         \* the state of the App component: its useState values and its timer
    net,        \* the fetch calls of the App in flight: requests and their responses
    mongo,      \* the contacts collection of the MongoDB adapter
    answers     \* the latest call made on both adapters and what each answered

vars == <<contacts, seq, now, proc, created, removed, seeded, returned, vin, vout,
          ui, net, mongo, answers>>

----------------------------------------------------------------------------
(* Characters and strings                                                  *)

UpperSeq == <<"A","B","C","D","E","F","G","H","I","J","K","L","M",
              "N","O","P","Q","R","S","T","U","V","W","X","Y","Z">>
LowerSeq == <<"a","b","c","d","e","f","g","h","i","j","k","l","m",
              "n","o","p","q","r","s","t","u","v","w","x","y","z">>
DigitSeq == <<"0","1","2","3","4","5","6","7","8","9">>

Range(s) == {s[i] : i \in DOMAIN s}

Upper == Range(UpperSeq)
Lower == Range(LowerSeq)
Letters == Upper \cup Lower
Digits == Range(DigitSeq)

\* The characters the regular expression class \s and String.trim() treat as
\* white space (those of them the inputs below use).
WhiteSpace == {" ", "\t", "\n"}

IndexOf(c, s) == CHOOSE i \in DOMAIN s : s[i] = c

\* String.prototype.toLowerCase, one character
LowerChar(c) == IF c \in Upper THEN LowerSeq[IndexOf(c, UpperSeq)] ELSE c

ToLowerCase(s) == [i \in DOMAIN s |-> LowerChar(s[i])]

SetMin(S) == CHOOSE x \in S : \A y \in S : x <= y
SetMax(S) == CHOOSE x \in S : \A y \in S : x >= y

\* String.prototype.trim: strips white space at both ends
Trim(s) ==
    LET keep == {i \in DOMAIN s : s[i] \notin WhiteSpace}
    IN  IF keep = {} THEN <<>> ELSE SubSeq(s, SetMin(keep), SetMax(keep))

Rep(c, n) == [i \in 1..n |-> c]

\* Number.prototype.toString of a non-negative integer
RECURSIVE toString(_)
toString(n) ==
    IF n < 10 THEN <<DigitSeq[n + 1]>>
    ELSE toString(n \div 10) \o <<DigitSeq[(n % 10) + 1]>>

DigitVal(c) == IndexOf(c, DigitSeq) - 1

RECURSIVE DigitsValue(_, _)
DigitsValue(s, acc) ==
    IF s = <<>> THEN acc ELSE DigitsValue(Tail(s), acc * 10 + DigitVal(Head(s)))

\* parseInt(string): skips leading white space, reads the longest prefix of
\* decimal digits and ignores whatever follows; NaN when there is no digit.
\* (The identifiers sent below carry no sign and no 0x prefix.)
ParseInt(s) ==
    LET keep == {i \in DOMAIN s : s[i] \notin WhiteSpace}
        body == IF keep = {} THEN <<>> ELSE SubSeq(s, SetMin(keep), Len(s))
        stop == {i \in DOMAIN body : body[i] \notin Digits}
        last == IF stop = {} THEN Len(body) ELSE SetMin(stop) - 1
    IN  IF last = 0 THEN [nan |-> TRUE, val |-> 0]
        ELSE [nan |-> FALSE, val |-> DigitsValue(SubSeq(body, 1, last), 0)]

\* SQLite's LIKE: % matches any run of characters, _ exactly one, every other
\* character itself, ASCII letters without regard to case.
RECURSIVE Like(_, _)
Like(pat, s) ==
    IF pat = <<>> THEN s = <<>>
    ELSE IF Head(pat) = "%"
         THEN \E k \in 0..Len(s) : Like(Tail(pat), SubSeq(s, k + 1, Len(s)))
    ELSE IF s = <<>> THEN FALSE
    ELSE IF Head(pat) = "_" THEN Like(Tail(pat), Tail(s))
    ELSE LowerChar(Head(pat)) = LowerChar(Head(s)) /\ Like(Tail(pat), Tail(s))

----------------------------------------------------------------------------
(* Validation rules                                                        *)

MaxNameLength == 50

\* /^[A-Za-z\s]+$/
NameRegex(name) ==
    /\ name # <<>>
    /\ \A i \in DOMAIN name : name[i] \in Letters \cup WhiteSpace

\* /^[^\s@]+@[^\s@]+\.[^\s@]+$/
EmailRegex(email) ==
    LET ats == {i \in DOMAIN email : email[i] = "@"}
    IN  /\ Cardinality(ats) = 1
        /\ \A i \in DOMAIN email : email[i] \notin WhiteSpace
        /\ LET at == SetMin(ats)
           IN  /\ at > 1
               /\ \E d \in (at + 2)..(Len(email) - 1) : email[d] = "."

\* Contact.validate, the name branch
NameErrors(name) ==
    IF Trim(name) = <<>> THEN <<"Name is required">>
    ELSE IF Len(name) > MaxNameLength THEN <<"Name must be less than 50 characters">>
    ELSE IF ~NameRegex(name) THEN <<"Name must only contain letters and spaces">>
    ELSE <<>>

\* Contact.validate, the email branch
EmailErrors(email) ==
    IF Trim(email) = <<>> THEN <<"Email is required">>
    ELSE IF ~EmailRegex(email) THEN <<"Please provide a valid email address">>
    ELSE <<>>

\* A plausible slip: duplicate detection folded into validation
validateSeesStore(name, email) ==
    LET errors == NameErrors(name) \o EmailErrors(email) \o
                  (IF \E r \in contacts : r.email = email
                   THEN <<"Email already exists">> ELSE <<>>)
    IN  [isValid |-> errors = <<>>, errors |-> errors]

\* A plausible slip: digits let through, /^[A-Za-z0-9\s]+$/
validateDigitsAllowed(name, email) ==
    LET nameErrors ==
            IF Trim(name) = <<>> THEN <<"Name is required">>
            ELSE IF Len(name) > MaxNameLength
                 THEN <<"Name must be less than 50 characters">>
            ELSE IF \E i \in DOMAIN name :
                        name[i] \notin Letters \cup WhiteSpace \cup Digits
                 THEN <<"Name must only contain letters and spaces">>
            ELSE <<>>
        errors == nameErrors \o EmailErrors(email)
    IN  [isValid |-> errors = <<>>, errors |-> errors]

\* A plausible slip: >= for >, rejecting a name of exactly 50 characters
validateOffByOne(name, email) ==
    LET nameErrors ==
            IF Trim(name) = <<>> THEN <<"Name is required">>
            ELSE IF Len(name) >= MaxNameLength
                 THEN <<"Name must be less than 50 characters">>
            ELSE IF ~NameRegex(name)
                 THEN <<"Name must only contain letters and spaces">>
            ELSE <<>>
        errors == nameErrors \o EmailErrors(email)
    IN  [isValid |-> errors = <<>>, errors |-> errors]

\* Contact.validate
validate(name, email) ==
    LET errors == NameErrors(name) \o EmailErrors(email)
    IN  [isValid |-> Len(errors) = 0, errors |-> errors]

----------------------------------------------------------------------------
(* The HTTP validator of POST /api/contacts (express-validator chains)      *)

\* validator.js isLength({ min: 1, max: 50 })
IsLength(s) == Len(s) >= 1 /\ Len(s) <= MaxNameLength

\* The dot-separated pieces of s, as index intervals <<first, last>>
Pieces(s) ==
    LET dots == {i \in DOMAIN s : s[i] = "."}
        cuts == {0, Len(s) + 1} \cup dots
    IN  {<<a + 1, b - 1>> : <<a, b>> \in
            {c \in cuts \X cuts : c[1] < c[2] /\
                                  ~\E d \in dots : c[1] < d /\ d < c[2]}}

\* validator.js isEmail with its default options: one @; the local part is
\* dot-separated non-empty atoms; the domain is a fully qualified name whose
\* last label is at least two letters.
IsEmail(s) ==
    LET ats == {i \in DOMAIN s : s[i] = "@"}
    IN  /\ Cardinality(ats) = 1
        /\ LET at == SetMin(ats)
               user == SubSeq(s, 1, at - 1)
               domain == SubSeq(s, at + 1, Len(s))
               labels == Pieces(domain)
               tld == SubSeq(domain, SetMax({l[1] : l \in labels}), Len(domain))
           IN  /\ user # <<>>
               /\ \A a \in Pieces(user) :
                     /\ a[1] <= a[2]
                     /\ \A i \in a[1]..a[2] :
                           user[i] \in Letters \cup Digits \cup {"!", "%", "_"}
               /\ Cardinality(labels) >= 2
               /\ \A l \in labels :
                     /\ l[1] <= l[2]
                     /\ \A i \in l[1]..l[2] : domain[i] \in Letters \cup Digits
               /\ Len(tld) >= 2
               /\ \A i \in DOMAIN tld : tld[i] \in Letters

\* validator.js normalizeEmail with its default options (all_lowercase), for
\* addresses outside the providers it special-cases
NormalizeEmail(s) == ToLowerCase(s)

\* validateContact + handleValidationErrors: the sanitizers rewrite the body,
\* every failing validator adds an error, and any error answers 400.
validateContact(name, email) ==
    LET n == Trim(name)
        e == Trim(email)
        errors ==
            (IF ~IsLength(n)
             THEN <<"Name must be between 1 and 50 characters">> ELSE <<>>) \o
            (IF ~NameRegex(n)
             THEN <<"Name must only contain letters and spaces">> ELSE <<>>) \o
            (IF ~IsEmail(e)
             THEN <<"Please provide a valid email address">> ELSE <<>>)
    IN  [ok |-> errors = <<>>, errors |-> errors,
         name |-> n, email |-> IF IsEmail(e) THEN NormalizeEmail(e) ELSE e]

----------------------------------------------------------------------------
(* The contacts table                                                      *)

\* CHECK(length(name) > 0 AND length(name) <= 50)
NameCheck(name) == Len(name) > 0 /\ Len(name) <= MaxNameLength

\* CHECK(email LIKE '%_@__%.__%')
EmailCheck(email) ==
    Like(<<"%", "_", "@", "_", "_", "%", ".", "_", "_", "%">>, email)

\* init-db.js: the sample rows, inserted with datetime('now', '-1 day')
sampleContacts ==
    << [name  |-> <<"J","o","h","n"," ","D","o","e">>,
        email |-> <<"j","o","h","n",".","d","o","e","@",
                    "e","x","a","m","p","l","e",".","c","o","m">>],
       [name  |-> <<"J","a","n","e"," ","S","m","i","t","h">>,
        email |-> <<"j","a","n","e",".","s","m","i","t","h","@",
                    "e","x","a","m","p","l","e",".","c","o","m">>],
       [name  |-> <<"B","o","b"," ","J","o","h","n","s","o","n">>,
        email |-> <<"b","o","b",".","j","o","h","n","s","o","n","@",
                    "e","x","a","m","p","l","e",".","c","o","m">>] >>

\* The clock reading of the sample rows: a day before the server's first reading
SeedTime == 0
StartTime == SeedTime + 1

SeededTable ==
    {[id |-> i, name |-> sampleContacts[i].name,
      email |-> sampleContacts[i].email, created_at |-> SeedTime] :
        i \in DOMAIN sampleContacts}

\* new Date(text) of a created_at column: the instant, in milliseconds
NewDate(t) == t * 1000

\* The canonical shape every adapter read returns for a row
Canon(r) ==
    [_id |-> toString(r.id), name |-> r.name, email |-> r.email,
     createdAt |-> NewDate(r.created_at)]

\* Contact.fromDatabase(row).toJSON()
toJSON(c) ==
    [_id |-> c._id, name |-> c.name, email |-> c.email, createdAt |-> c.createdAt]

\* The orders ORDER BY created_at DESC may return rows in: rows of equal
\* created_at come in an order SQL leaves to the engine.
RECURSIVE Ordered(_)
Ordered(rows) ==
    IF rows = {} THEN {<<>>}
    ELSE LET first == {r \in rows : \A x \in rows : r.created_at >= x.created_at}
         IN  UNION {{<<r>> \o rest : rest \in Ordered(rows \ {r})} : r \in first}

\* contacts.map(row => canonical shape)
CanonList(list) == [i \in DOMAIN list |-> Canon(list[i])]

\* contacts.map(contact => Contact.fromDatabase(contact).toJSON())
JSONList(list) == [i \in DOMAIN list |-> toJSON(list[i])]

\* A plausible slip: a lookup that never finds the row
getContactByEmailMisses(email) == <<>>

\* ContactDatabase.getContactByEmail: <<>> is null
getContactByEmail(email) ==
    LET rows == {r \in contacts : r.email = email}
    IN  IF rows = {} THEN <<>> ELSE <<Canon(CHOOSE r \in rows : TRUE)>>

\* ContactDatabase.getContactById over a table
getContactById(table, id) ==
    LET n == ParseInt(id)
        rows == IF n.nan THEN {} ELSE {r \in table : r.id = n.val}
    IN  IF rows = {} THEN <<>> ELSE <<Canon(CHOOSE r \in rows : TRUE)>>

\* A plausible slip: the table created without UNIQUE on email
InsertCodeNoUnique(name, email) ==
    IF ~(NameCheck(name) /\ EmailCheck(email)) THEN "SQLITE_CONSTRAINT_CHECK"
    ELSE "SQLITE_OK"

\* The result code of INSERT INTO contacts (name, email, created_at)
InsertCode(name, email) ==
    IF ~(NameCheck(name) /\ EmailCheck(email)) THEN "SQLITE_CONSTRAINT_CHECK"
    ELSE IF \E r \in contacts : r.email = email THEN "SQLITE_CONSTRAINT_UNIQUE"
    ELSE "SQLITE_OK"

\* A plausible slip: the other engine's duplicate-key code tested
addContactErrorWrongCode(code) ==
    IF code = "11000" THEN "Email already exists" ELSE code

\* ContactDatabase.addContact, the catch: the message of the error it throws
addContactError(code) ==
    IF code = "SQLITE_CONSTRAINT_UNIQUE" THEN "Email already exists" ELSE code

\* A plausible slip: the id column without AUTOINCREMENT, so the rowid is one
\* more than the largest stored
lastInsertRowidOfMax(table, sequence) ==
    IF table = {} THEN 1 ELSE SetMax({r.id : r \in table}) + 1

\* id INTEGER PRIMARY KEY AUTOINCREMENT: the rowid an INSERT gets is one more
\* than the largest the table has ever held
lastInsertRowid(table, sequence) == sequence + 1

\* A plausible slip: the rows marked as deleted and left in the table
AfterDeleteKeepsRows(rows) == contacts

\* The table after DELETE FROM contacts WHERE id = ?
AfterDelete(rows) == contacts \ rows

\* A plausible slip: DELETE FROM contacts WHERE id <= ?
DeletedRowsUpTo(id) ==
    LET n == ParseInt(id)
    IN  IF n.nan THEN {} ELSE {r \in contacts : r.id <= n.val}

\* DELETE FROM contacts WHERE id = ?, bound to parseInt(id): the rows that go
DeletedRows(id) ==
    LET n == ParseInt(id)
    IN  IF n.nan THEN {} ELSE {r \in contacts : r.id = n.val}

\* A plausible slip: SELECT MAX(id) for the count
getContactCountMaxId == seq

\* ContactDatabase.getContactCount: SELECT COUNT(*) FROM contacts
getContactCount == Cardinality(contacts)

\* The rows name LIKE ? OR email LIKE ? selects for the term %query%
Matching(query) ==
    LET term == <<"%">> \o query \o <<"%">>
    IN  {r \in contacts : Like(term, r.name) \/ Like(term, r.email)}

----------------------------------------------------------------------------
(* Requests                                                                *)

Procs == {"p1", "p2"}

\* Bounds of the model
MaxId == 2
MaxCreates == 2
MaxClock == 2

L50 == Rep("a", MaxNameLength)

Al == <<"A", "l">>
Bo == <<"B", "o">>
E1 == <<"a", "@", "b", "b", ".", "c", "c">>
E2 == <<"c", "@", "d", "d", ".", "e", "e">>

\* The request bodies the clients send
CreateInputs ==
    { [name |-> Al, email |-> E1],
      [name |-> Bo, email |-> E1],
      [name |-> <<"a", "\t", "b">>, email |-> E2],
      [name |-> <<"a", "1">>, email |-> E1],
      [name |-> <<"a", "!">>, email |-> E2],
      [name |-> Al, email |-> <<"a", "b">>],
      [name |-> Al, email |-> <<"a", "@", "b", ".", "c">>],
      [name |-> Al, email |-> <<"a", "@", "b", ".", "c", "d">>],
      [name |-> <<" ", "A", "l">>,
       email |-> <<" ", "A", "@", "b", "b", ".", "c", "c">>] }

Idle ==
    [pc |-> "idle", op |-> "none", entry |-> "none", name |-> <<>>, email |-> <<>>,
     arg |-> <<>>, given |-> TRUE, stored |-> FALSE, calls |-> <<>>, error |-> "",
     status |-> 0, errors |-> <<>>, deleted |-> FALSE, result |-> <<>>, count |-> 0]

\* The id strings the clients ask to delete
DeleteArgs == {toString(i) : i \in 1..MaxId}

\* Identifier strings that are the string form of no id
MalformedIds == {<<"a", "b", "c">>, <<"1", "a", "b", "c">>, <<"1", ".", "9">>}

\* The identifiers the clients send
IdArgs == DeleteArgs \cup MalformedIds

\* The search terms the clients send
Queries == {<<>>, <<" ", " ", " ">>, <<"a", "l">>, <<"@", "d">>, <<"_">>}

\* The emails the clients look up
LookupEmails == {E1, E2}

\* The verdicts recorded for the candidate: those of Contact.validate, those of
\* the HTTP validator, those of the table's CHECK constraints, and whether the
\* candidate's email was stored (TRUE, FALSE) each time Contact.validate ran
NoVerdict == [model |-> {}, http |-> {}, table |-> {}, seen |-> {}]
NoCandidate == [name |-> <<>>, email |-> <<>>]

\* The App before it is mounted: the initial useState values, no timer running
NoApp ==
    [allContacts |-> <<>>, name |-> <<>>, email |-> <<>>, searchTerm |-> <<>>,
     message |-> "", messageType |-> "success", loading |-> FALSE,
     filteredContacts |-> <<>>, nameError |-> "", timer |-> 0, shown |-> 0]

\* The MongoDB collection before any insert: no document, no ObjectId generated
NoCollection == [docs |-> {}, inserted |-> 0]

\* No call made on the adapters yet
NoCall == [op |-> "none", sqlite |-> [kind |-> "none", contacts |-> {}],
           mongodb |-> [kind |-> "none", contacts |-> {}]]

Init ==
    /\ \/ contacts = {} /\ seq = 0
       \/ contacts = SeededTable /\ seq = Len(sampleContacts)
    /\ now = StartTime
    /\ proc = [p \in Procs |-> Idle]
    /\ created = 0
    /\ removed = 0
    /\ seeded = Cardinality(contacts)
    /\ returned = {}
    /\ vin = NoCandidate
    /\ vout = NoVerdict
    /\ ui = NoApp
    /\ net = <<>>
    /\ mongo = NoCollection
    /\ answers = NoCall

Finish(p, r) == proc' = [proc EXCEPT ![p] = [r EXCEPT !.pc = "done"]]

\* A create is admitted while the run's inserts stay within MaxCreates
RoomForInsert ==
    created + Cardinality({q \in Procs : proc[q].pc = "checked"}) < MaxCreates

\* An outcome is taken by its caller before the server's next step: taking it
\* changes nothing the server reads, so any run can be reordered this way.
Taken == \A q \in Procs : proc[q].pc # "done"

Request(op, entry, name, email, arg) ==
    [Idle EXCEPT !.op = op, !.entry = entry, !.name = name, !.email = email,
                 !.arg = arg, !.stored = \E r \in contacts : r.email = email]

\* ContactService.createContact, to the point where it waits for the lookup:
\* fromRequest, validate, getContactByEmail; a found row is the duplicate error.
createContact(p, in) ==
    /\ proc[p].pc = "idle"
    /\ Taken
    /\ RoomForInsert
    /\ LET r == Request("create", "service", in.name, in.email, <<>>)
           validation == validate(in.name, in.email)
           looked == [r EXCEPT !.calls = <<"getContactByEmail">>]
       IN  IF ~validation.isValid
           THEN Finish(p, [r EXCEPT !.error = "Validation failed",
                                    !.errors = validation.errors])
           ELSE IF getContactByEmail(in.email) # <<>>
           THEN Finish(p, [looked EXCEPT !.error = "Email already exists"])
           ELSE proc' = [proc EXCEPT ![p] = [looked EXCEPT !.pc = "checked"]]
    /\ UNCHANGED <<contacts, seq, now, created, removed, seeded, returned, vin, vout,
                 ui, net, mongo, answers>>

\* POST /api/contacts, to the point where it waits for the lookup: the
\* validation middleware (400), then getContactByEmail of the sanitized body (409).
postContact(p, in) ==
    /\ proc[p].pc = "idle"
    /\ Taken
    /\ RoomForInsert
    /\ LET body == validateContact(in.name, in.email)
           r == Request("create", "route", body.name, body.email, <<>>)
           looked == [r EXCEPT !.calls = <<"getContactByEmail">>]
       IN  IF ~body.ok
           THEN Finish(p, [r EXCEPT !.status = 400, !.errors = body.errors])
           ELSE IF getContactByEmail(body.email) # <<>>
           THEN Finish(p, [looked EXCEPT
                              !.status = 409,
                              !.error = "A contact with this email already exists"])
           ELSE proc' = [proc EXCEPT ![p] = [looked EXCEPT !.pc = "checked"]]
    /\ UNCHANGED <<contacts, seq, now, created, removed, seeded, returned, vin, vout,
                 ui, net, mongo, answers>>

\* ContactDatabase.addContact and what its caller makes of it: the INSERT, the
\* read back of the new row, and the error of a rejected INSERT as the service
\* rethrows it or as the route answers it (409 for the duplicate, 500 otherwise).
addContact(p) ==
    /\ proc[p].pc = "checked"
    /\ Taken
    /\ LET r == [proc[p] EXCEPT !.calls = Append(@, "addContact")]
           code == InsertCode(r.name, r.email)
           id == seq + 1
           table == contacts \cup
                      {[id |-> id, name |-> r.name, email |-> r.email,
                        created_at |-> now]}
           newContact == getContactById(table, toString(id))
           message == addContactError(code)
       IN  IF code = "SQLITE_OK"
           THEN /\ contacts' = table
                /\ seq' = id
                /\ created' = created + 1
                /\ returned' = returned \cup Range(JSONList(newContact))
                /\ IF r.entry = "service"
                   THEN Finish(p, [r EXCEPT !.result = JSONList(newContact)])
                   ELSE Finish(p, [r EXCEPT !.status = 201, !.result = newContact])
           ELSE /\ UNCHANGED <<contacts, seq, created, returned>>
                /\ IF r.entry = "service"
                   THEN Finish(p, [r EXCEPT !.error = message])
                   ELSE IF message = "Email already exists"
                   THEN Finish(p, [r EXCEPT
                                     !.status = 409,
                                     !.error = "A contact with this email already exists"])
                   ELSE Finish(p, [r EXCEPT !.status = 500,
                                            !.error = "Failed to add contact"])
    /\ UNCHANGED <<now, removed, seeded, vin, vout,
                 ui, net, mongo, answers>>

\* A plausible slip: the result of deleteContact not looked at
deleteStatusAlwaysOk(deleted) == 200

\* DELETE /api/contacts/:id, the status answered for deleteContact's result
deleteStatus(deleted) == IF deleted THEN 200 ELSE 404

\* ContactDatabase.deleteContact as ContactService.deleteContact returns it and
\* as DELETE /api/contacts/:id answers it (200, or 404 when no row went)
deleteContact(p, entry, id) ==
    /\ proc[p].pc = "idle"
    /\ Taken
    /\ LET rows == DeletedRows(id)
           r == [Request("delete", entry, <<>>, <<>>, id) EXCEPT
                    !.calls = <<"deleteContact">>, !.deleted = Cardinality(rows) > 0]
       IN  /\ contacts' = contacts \ rows
           /\ removed' = IF r.deleted THEN removed + 1 ELSE removed
           /\ returned' = {c \in returned : ~\E row \in rows : Canon(row)._id = c._id}
           /\ IF entry = "service" THEN Finish(p, r)
              ELSE Finish(p, [r EXCEPT
                                !.status = deleteStatus(r.deleted),
                                !.error = IF r.deleted THEN "" ELSE "Contact not found"])
    /\ UNCHANGED <<seq, now, created, seeded, vin, vout,
                 ui, net, mongo, answers>>

\* ContactDatabase.getAllContacts: the answers it may give in this state
dbGetAllContacts == {CanonList(list) : list \in Ordered(contacts)}

\* ContactDatabase.searchContacts: the answers it may give in this state
dbSearchContacts(query) == {CanonList(list) : list \in Ordered(Matching(query))}

\* ContactService.getAllContacts: the answers it may give in this state
svcGetAllContacts == {JSONList(list) : list \in dbGetAllContacts}

\* A plausible slip: the route's empty answer for a blank query
svcSearchContactsBlankEmpty(query) ==
    IF Trim(query) = <<>> THEN {<<>>}
    ELSE {JSONList(list) : list \in dbSearchContacts(Trim(query))}

\* ContactService.searchContacts: the answers it may give in this state
svcSearchContacts(query) ==
    IF query = <<>> \/ Trim(query) = <<>> THEN svcGetAllContacts
    ELSE {JSONList(list) : list \in dbSearchContacts(Trim(query))}

getAllContacts(p) ==
    /\ proc[p].pc = "idle"
    /\ Taken
    /\ \E answer \in svcGetAllContacts :
          Finish(p, [Request("getAll", "service", <<>>, <<>>, <<>>) EXCEPT
                        !.calls = <<"getAllContacts">>, !.result = answer])
    /\ UNCHANGED <<contacts, seq, now, created, removed, seeded, returned, vin, vout,
                 ui, net, mongo, answers>>

searchContacts(p, query) ==
    /\ proc[p].pc = "idle"
    /\ Taken
    /\ \E answer \in svcSearchContacts(query) :
          Finish(p, [Request("search", "service", <<>>, <<>>, query) EXCEPT
                        !.calls = IF Trim(query) = <<>> THEN <<"getAllContacts">>
                                  ELSE <<"searchContacts">>,
                        !.result = answer])
    /\ UNCHANGED <<contacts, seq, now, created, removed, seeded, returned, vin, vout,
                 ui, net, mongo, answers>>

\* A plausible slip: the service's answer for a blank query, every contact
routeSearchContactsBlankAll(given, q) ==
    IF ~given \/ q = <<>> \/ Trim(q) = <<>> THEN dbGetAllContacts
    ELSE dbSearchContacts(Trim(q))

\* GET /api/contacts/search: the answers it may give in this state; without a
\* q, or with a blank one, it answers no rows and asks the database nothing
routeSearchContacts(given, q) ==
    IF ~given \/ q = <<>> \/ Trim(q) = <<>> THEN {<<>>}
    ELSE dbSearchContacts(Trim(q))

getSearch(p, given, q) ==
    /\ proc[p].pc = "idle"
    /\ Taken
    /\ \E answer \in routeSearchContacts(given, q) :
          Finish(p, [Request("getSearch", "route", <<>>, <<>>, q) EXCEPT
                        !.given = given,
                        !.calls = IF ~given \/ Trim(q) = <<>> THEN <<>>
                                  ELSE <<"searchContacts">>,
                        !.status = 200,
                        !.result = answer])
    /\ UNCHANGED <<contacts, seq, now, created, removed, seeded, returned, vin, vout,
                 ui, net, mongo, answers>>

\* A plausible slip: the Contact built without the row's createdAt, so that
\* the constructor's new Date() stands in for it
svcGetContactByIdNewDate(id) ==
    LET found == getContactById(contacts, id)
    IN  [i \in DOMAIN found |-> [toJSON(found[i]) EXCEPT !.createdAt = NewDate(now)]]

\* ContactService.getContactById: <<>> is null
svcGetContactById(id) == JSONList(getContactById(contacts, id))

getById(p, id) ==
    /\ proc[p].pc = "idle"
    /\ Taken
    /\ Finish(p, [Request("getById", "service", <<>>, <<>>, id) EXCEPT
                     !.calls = <<"getContactById">>,
                     !.result = svcGetContactById(id)])
    /\ UNCHANGED <<contacts, seq, now, created, removed, seeded, returned, vin, vout,
                 ui, net, mongo, answers>>

\* ContactService.getContactByEmail: <<>> is null
svcGetContactByEmail(email) == JSONList(getContactByEmail(email))

getByEmail(p, email) ==
    /\ proc[p].pc = "idle"
    /\ Taken
    /\ Finish(p, [Request("getByEmail", "service", <<>>, email, <<>>) EXCEPT
                     !.calls = <<"getContactByEmail">>,
                     !.result = svcGetContactByEmail(email)])
    /\ UNCHANGED <<contacts, seq, now, created, removed, seeded, returned, vin, vout,
                 ui, net, mongo, answers>>

\* ContactService.getContactCount
count(p) ==
    /\ proc[p].pc = "idle"
    /\ Taken
    /\ Finish(p, [Request("count", "service", <<>>, <<>>, <<>>) EXCEPT
                     !.calls = <<"getContactCount">>,
                     !.count = getContactCount])
    /\ UNCHANGED <<contacts, seq, now, created, removed, seeded, returned, vin, vout,
                 ui, net, mongo, answers>>

\* The caller takes the outcome; the client is free for its next request
Return(p) ==
    /\ proc[p].pc = "done"
    /\ proc' = [proc EXCEPT ![p] = Idle]
    /\ UNCHANGED <<contacts, seq, now, created, removed, seeded, returned, vin, vout,
                 ui, net, mongo, answers>>

\* A second passes on the clock datetime('now') reads
Tick ==
    /\ now < MaxClock
    /\ Taken
    /\ now' = now + 1
    /\ UNCHANGED <<contacts, seq, created, removed, seeded, returned, proc, vin, vout,
                 ui, net, mongo, answers>>

Next ==
    \/ \E p \in Procs, in \in CreateInputs : createContact(p, in)
    \/ \E p \in Procs, in \in CreateInputs : postContact(p, in)
    \/ \E p \in Procs : addContact(p)
    \/ \E p \in Procs, entry \in {"service", "route"}, id \in IdArgs :
          deleteContact(p, entry, id)
    \/ \E p \in Procs : getAllContacts(p)
    \/ \E p \in Procs, query \in Queries : searchContacts(p, query)
    \/ \E p \in Procs, q \in Queries : getSearch(p, TRUE, q)
    \/ \E p \in Procs : getSearch(p, FALSE, <<>>)
    \/ \E p \in Procs, id \in IdArgs : getById(p, id)
    \/ \E p \in Procs, email \in LookupEmails : getByEmail(p, email)
    \/ \E p \in Procs : count(p)
    \/ \E p \in Procs : Return(p)
    \/ Tick

Spec == Init /\ [][Next]_vars

----------------------------------------------------------------------------
(* The validators on their own: one candidate, validated again and again    *)
(* while the table changes under it                                        *)

CandidateNames ==
    { <<>>, <<" ">>, Al, <<" ", "A", "l">>, <<"a", " ", "b">>, <<"a", "\t", "b">>,
      <<"a", "\n">>, <<"a", "1">>, <<"a", "!">>,
      L50, L50 \o <<"a">>, L50 \o <<" ">>, <<" ">> \o L50 }

CandidateEmails ==
    { <<>>, <<" ">>, E1, <<"A", "@", "b", "b", ".", "c", "c">>,
      <<"a", "@", "b", ".", "c">>, <<"a", "@", "b", ".", "c", "d">>,
      <<"a", "b">>, <<"a", "@", "@", "b", "b", ".", "c", "c">>,
      <<" ", "a", "@", "b", "b", ".", "c", "c">> }

InitValidate ==
    /\ \/ contacts = {} /\ seq = 0
       \/ contacts = SeededTable /\ seq = Len(sampleContacts)
    /\ now = StartTime
    /\ proc = [p \in Procs |-> Idle]
    /\ created = 0
    /\ removed = 0
    /\ seeded = Cardinality(contacts)
    /\ returned = {}
    /\ vin \in [name : CandidateNames, email : CandidateEmails]
    /\ vout = NoVerdict
    /\ ui = NoApp
    /\ net = <<>>
    /\ mongo = NoCollection
    /\ answers = NoCall

CandidateStored == \E r \in contacts : r.email = vin.email

\* Contact.fromRequest(vin).validate() runs against the table as it is now
runValidate ==
    /\ CandidateStored \notin vout.seen
    /\ vout' = [vout EXCEPT !.model = @ \cup {validate(vin.name, vin.email)},
                            !.seen = @ \cup {CandidateStored}]
    /\ UNCHANGED <<contacts, seq, now, proc, created, removed, seeded, returned, vin,
                 ui, net, mongo, answers>>

\* The validation middleware runs on the body
runValidateContact ==
    /\ vout.http = {}
    /\ vout' = [vout EXCEPT !.http = {validateContact(vin.name, vin.email)}]
    /\ UNCHANGED <<contacts, seq, now, proc, created, removed, seeded, returned, vin,
                 ui, net, mongo, answers>>

\* The table's CHECK constraints are evaluated on the candidate row
runTableCheck ==
    /\ vout.table = {}
    /\ vout' = [vout EXCEPT !.table = {[name |-> NameCheck(vin.name),
                                        email |-> EmailCheck(vin.email)]}]
    /\ UNCHANGED <<contacts, seq, now, proc, created, removed, seeded, returned, vin,
                 ui, net, mongo, answers>>

\* ContactService.createContact of the candidate by a lone client, start to end
storeCandidate ==
    /\ created < MaxCreates
    /\ validate(vin.name, vin.email).isValid
    /\ getContactByEmail(vin.email) = <<>>
    /\ InsertCode(vin.name, vin.email) = "SQLITE_OK"
    /\ contacts' = contacts \cup {[id |-> lastInsertRowid(contacts, seq),
                                   name |-> vin.name,
                                   email |-> vin.email, created_at |-> now]}
    /\ seq' = seq + 1
    /\ created' = created + 1
    /\ returned' = returned \cup
                      Range(JSONList(getContactById(contacts',
                                       toString(lastInsertRowid(contacts, seq)))))
    /\ UNCHANGED <<now, proc, removed, seeded, vin, vout,
                 ui, net, mongo, answers>>

\* ContactService.deleteContact of the candidate's row by a lone client
removeStored ==
    /\ \E r \in contacts :
          /\ r.email = vin.email
          /\ getContactById(contacts, toString(r.id)) # <<>>
          /\ contacts' = contacts \ DeletedRows(toString(r.id))
          /\ returned' = {c \in returned : c._id # toString(r.id)}
    /\ removed' = removed + 1
    /\ UNCHANGED <<seq, now, proc, created, seeded, vin, vout,
                 ui, net, mongo, answers>>

NextValidate ==
    \/ runValidate
    \/ runValidateContact
    \/ runTableCheck
    \/ storeCandidate
    \/ removeStored

SpecValidate == InitValidate /\ [][NextValidate]_vars

----------------------------------------------------------------------------
(* The two storage adapters side by side: every call is made on the SQLite  *)
(* adapter and on the MongoDB adapter, and both answers are kept            *)

HexSeq == DigitSeq \o <<"a", "b", "c", "d", "e", "f">>

\* new ObjectId(id) of a string: a 24 character hex string, anything else throws
ObjectIdAccepts(id) ==
    Len(id) = 24 /\ \A i \in DOMAIN id : LowerChar(id[i]) \in Range(HexSeq)

\* result.insertedId.toHexString() of the n-th insert: the driver's ObjectIds
\* are distinct and increase
ObjectIdHex(n) == Rep("0", 24 - Len(toString(n))) \o toString(n)

\* A value in an adapter's answer, with the JavaScript type it has
JsString(text) == [type |-> "string", value |-> text]
JsObjectId(hex) == [type |-> "ObjectId", value |-> hex]

\* { $regex: query, $options: 'i' } from a position of s: . matches any
\* character, every other character of the queries sent below itself
RECURSIVE RegexAt(_, _)
RegexAt(pat, s) ==
    IF pat = <<>> THEN TRUE
    ELSE IF s = <<>> THEN FALSE
    ELSE /\ Head(pat) = "." \/ LowerChar(Head(pat)) = LowerChar(Head(s))
         /\ RegexAt(Tail(pat), Tail(s))

\* { $regex: query, $options: 'i' }: the pattern is looked for anywhere in s
Regex(pat, s) == \E k \in 0..Len(s) : RegexAt(pat, SubSeq(s, k + 1, Len(s)))

\* The contacts of a SQLite answer: the canonical shape of each row
sqliteContacts(rows) == {[Canon(r) EXCEPT !._id = JsString(@)] : r \in rows}

\* The contacts of a MongoDB answer: the documents as the driver returns them
mongoContacts(found) ==
    {[_id |-> JsObjectId(d._id), name |-> d.name, email |-> d.email,
      createdAt |-> d.createdAt] : d \in found}

Answer(kind, list) == [kind |-> kind, contacts |-> list]

\* The bodies inserted, the emails looked up and the terms searched on both
AdapterInputs ==
    { [name |-> Al, email |-> E1], [name |-> Bo, email |-> E1],
      [name |-> Bo, email |-> E2],
      [name |-> Al, email |-> <<"a", "@", "b", ".", "c">>] }
AdapterQueries == {<<"a", "l">>, <<"_">>, <<".">>}

\* The identifier of a call: the one each adapter returned for the contact of
\* an email, as a string, or the same text for both
AdapterIds ==
    [kind : {"of"}, email : LookupEmails, text : {<<>>}] \cup
    [kind : {"text"}, email : {<<>>}, text : MalformedIds]

sqliteId(by) ==
    IF by.kind = "text" THEN by.text
    ELSE Canon(CHOOSE r \in contacts : r.email = by.email)._id

mongoId(by) ==
    IF by.kind = "text" THEN by.text
    ELSE (CHOOSE d \in mongo.docs : d.email = by.email)._id

\* An identifier of a stored contact is one both adapters have returned
Known(by) ==
    by.kind = "of" =>
        /\ \E r \in contacts : r.email = by.email
        /\ \E d \in mongo.docs : d.email = by.email

InitAdapters ==
    /\ contacts = {} /\ seq = 0
    /\ now = StartTime
    /\ proc = [p \in Procs |-> Idle]
    /\ created = 0 /\ removed = 0 /\ seeded = 0 /\ returned = {}
    /\ vin = NoCandidate /\ vout = NoVerdict
    /\ ui = NoApp /\ net = <<>>
    /\ mongo = NoCollection
    /\ answers = NoCall

\* ContactDatabase.addContact of the MongoDB adapter: insertOne, with the
\* unique index on email; error code 11000 becomes 'Email already exists'
mongoAddContact(name, email) ==
    IF \E d \in mongo.docs : d.email = email
    THEN [collection |-> mongo, answer |-> Answer("Email already exists", {})]
    ELSE LET doc == [_id |-> ObjectIdHex(mongo.inserted + 1), name |-> name,
                     email |-> email, createdAt |-> NewDate(now)]
         IN  [collection |-> [docs |-> mongo.docs \cup {doc},
                              inserted |-> mongo.inserted + 1],
              answer |-> Answer("ok", mongoContacts({doc}))]

\* ContactDatabase.getContactById of the MongoDB adapter
mongoGetContactById(id) ==
    IF ~ObjectIdAccepts(id) THEN Answer("BSONError", {})
    ELSE LET found == {d \in mongo.docs : d._id = id}
         IN  IF found = {} THEN Answer("null", {}) ELSE Answer("ok", mongoContacts(found))

\* ContactDatabase.getContactByEmail of the MongoDB adapter
mongoGetContactByEmail(email) ==
    LET found == {d \in mongo.docs : d.email = email}
    IN  IF found = {} THEN Answer("null", {}) ELSE Answer("ok", mongoContacts(found))

\* ContactDatabase.deleteContact of the MongoDB adapter
mongoDeleteContact(id) ==
    IF ~ObjectIdAccepts(id)
    THEN [collection |-> mongo, answer |-> Answer("BSONError", {})]
    ELSE LET found == {d \in mongo.docs : d._id = id}
         IN  [collection |-> [mongo EXCEPT !.docs = @ \ found],
              answer |-> Answer(IF Cardinality(found) > 0 THEN "true" ELSE "false", {})]

\* ContactDatabase.searchContacts of the MongoDB adapter
mongoSearchContacts(query) ==
    Answer("ok", mongoContacts({d \in mongo.docs :
                                   Regex(query, d.name) \/ Regex(query, d.email)}))

\* ContactDatabase.getAllContacts of the MongoDB adapter
mongoGetAllContacts == Answer("ok", mongoContacts(mongo.docs))

\* What the MongoDB adapter answers null for, the SQLite adapter answers so
sqliteFound(found) ==
    IF found = <<>> THEN Answer("null", {})
    ELSE Answer("ok", {[found[1] EXCEPT !._id = JsString(@)]})

callAddContact(in) ==
    /\ created < MaxCreates /\ mongo.inserted < MaxCreates
    /\ LET code == InsertCode(in.name, in.email)
           row == [id |-> seq + 1, name |-> in.name, email |-> in.email,
                   created_at |-> now]
           there == mongoAddContact(in.name, in.email)
       IN  /\ IF code = "SQLITE_OK"
              THEN /\ contacts' = contacts \cup {row}
                   /\ seq' = seq + 1
                   /\ created' = created + 1
              ELSE UNCHANGED <<contacts, seq, created>>
           /\ mongo' = there.collection
           /\ answers' = [op |-> "addContact",
                          sqlite |-> IF code = "SQLITE_OK"
                                     THEN sqliteFound(getContactById(contacts', toString(seq + 1)))
                                     ELSE Answer(addContactError(code), {}),
                          mongodb |-> there.answer]
    /\ UNCHANGED <<now, proc, removed, seeded, returned, vin, vout, ui, net>>

callGetContactById(by) ==
    /\ Known(by)
    /\ answers' = [op |-> "getContactById",
                   sqlite |-> sqliteFound(getContactById(contacts, sqliteId(by))),
                   mongodb |-> mongoGetContactById(mongoId(by))]
    /\ UNCHANGED <<contacts, seq, now, proc, created, removed, seeded, returned,
                   vin, vout, ui, net, mongo>>

callGetContactByEmail(email) ==
    /\ answers' = [op |-> "getContactByEmail",
                   sqlite |-> sqliteFound(getContactByEmail(email)),
                   mongodb |-> mongoGetContactByEmail(email)]
    /\ UNCHANGED <<contacts, seq, now, proc, created, removed, seeded, returned,
                   vin, vout, ui, net, mongo>>

callDeleteContact(by) ==
    /\ Known(by)
    /\ LET rows == DeletedRows(sqliteId(by))
           there == mongoDeleteContact(mongoId(by))
       IN  /\ contacts' = contacts \ rows
           /\ removed' = IF Cardinality(rows) > 0 THEN removed + 1 ELSE removed
           /\ mongo' = there.collection
           /\ answers' = [op |-> "deleteContact",
                          sqlite |-> Answer(IF Cardinality(rows) > 0 THEN "true"
                                            ELSE "false", {}),
                          mongodb |-> there.answer]
    /\ UNCHANGED <<seq, now, proc, created, seeded, returned, vin, vout, ui, net>>

callSearchContacts(query) ==
    /\ answers' = [op |-> "searchContacts",
                   sqlite |-> Answer("ok", sqliteContacts(Matching(query))),
                   mongodb |-> mongoSearchContacts(query)]
    /\ UNCHANGED <<contacts, seq, now, proc, created, removed, seeded, returned,
                   vin, vout, ui, net, mongo>>

callGetAllContacts ==
    /\ answers' = [op |-> "getAllContacts",
                   sqlite |-> Answer("ok", sqliteContacts(contacts)),
                   mongodb |-> mongoGetAllContacts]
    /\ UNCHANGED <<contacts, seq, now, proc, created, removed, seeded, returned,
                   vin, vout, ui, net, mongo>>

NextAdapters ==
    \/ \E in \in AdapterInputs : callAddContact(in)
    \/ \E by \in AdapterIds : callGetContactById(by)
    \/ \E email \in LookupEmails : callGetContactByEmail(email)
    \/ \E by \in AdapterIds : callDeleteContact(by)
    \/ \E query \in AdapterQueries : callSearchContacts(query)
    \/ callGetAllContacts

SpecAdapters == InitAdapters /\ [][NextAdapters]_vars

----------------------------------------------------------------------------
(* The React application (App.js) and the server its requests go to        *)

\* The fetch requests one run of the form makes, and one run of the list
MaxFormRequests == 3
MaxListRequests == 5

\* setTimeout(() => setMessage(''), 3000), in seconds
HideAfter == 3

\* A plausible slip: the test for an @ alone
EmailTestAtOnly(email) == \E at \in DOMAIN email : email[at] = "@"

\* /\S+@\S+\.\S+/.test(email): the pattern is looked for anywhere in the text
EmailTest(email) ==
    \E at \in DOMAIN email, dot \in DOMAIN email :
        /\ email[at] = "@" /\ email[dot] = "."
        /\ at > 1 /\ dot > at + 1 /\ dot < Len(email)
        /\ \A i \in (at - 1)..(dot + 1) : email[i] \notin WhiteSpace

\* ContactForm, the effect on [name]: the inline error under the name field
setNameError(name) ==
    IF Trim(name) = <<>> THEN ""
    ELSE IF ~NameRegex(Trim(name))
    THEN "Name should only contain letters and spaces. Numbers and symbols are not allowed."
    ELSE ""

showMessage(app, text, type) == [app EXCEPT !.message = text, !.messageType = type]

\* A plausible slip: the effect without its cleanup and its dependency, so a
\* timer that runs is left running when the message is replaced
autoHideKeepsTimer(prev, next) ==
    IF next.message = "" THEN [next EXCEPT !.timer = 0]
    ELSE IF prev.timer > 0 THEN next
    ELSE [next EXCEPT !.timer = HideAfter]

\* The auto-hide effect on [message]: when the message has changed the cleanup
\* clears the timer that runs, and a message that is not empty starts one
autoHide(prev, next) ==
    IF next.message = prev.message THEN next
    ELSE [next EXCEPT !.timer = IF next.message # "" THEN HideAfter ELSE 0]

\* The sync effect on [allContacts, searchTerm]; loaded says that
\* setAllContacts was given a new array
syncFiltered(prev, next, loaded) ==
    IF (loaded \/ next.searchTerm # prev.searchTerm) /\ Trim(next.searchTerm) = <<>>
    THEN [next EXCEPT !.filteredContacts = next.allContacts]
    ELSE next

\* The render after a handler's state updates, with the effects it runs
Render(prev, next, loaded) ==
    autoHide(prev, syncFiltered(prev, [next EXCEPT !.nameError = setNameError(next.name)],
                                loaded))

\* How long the message on display has been the message, in seconds
Seen(prev, next) ==
    [next EXCEPT !.shown = IF next.message = prev.message THEN prev.shown ELSE 0]

Update(next, loaded) == ui' = Seen(ui, Render(ui, next, loaded))

\* What a request carries: the body of a POST, the q of a search, the id of a DELETE
NoArg == [name |-> <<>>, email |-> <<>>, text |-> <<>>]

\* fetch(...): a request on its way to the server
Fetch(method, arg) ==
    [method |-> method, arg |-> arg, pc |-> "sent", status |-> 0,
     success |-> FALSE, message |-> "", data |-> <<>>, seen |-> 0]

\* res.status(status).json({ success, message, data })
Answered(r, status, success, message, data) ==
    [r EXCEPT !.pc = "answered", !.status = status, !.success = success,
              !.message = message, !.data = data]

\* The requests that have no answer the application has run on yet
Pending == {i \in DOMAIN net : net[i].pc # "received"}

\* The requests still to come from those under way: a POST or a DELETE that
\* succeeds is followed by a reload
Reloads == {i \in Pending : net[i].method \in {"POST", "DELETE"}}

Room(n, max) == Len(net) + Cardinality(Reloads) + n <= max

\* app.get('/api/contacts')
serveGetContacts(i) ==
    /\ net[i].method = "GET" /\ net[i].pc = "sent"
    /\ \E list \in dbGetAllContacts :
          net' = [net EXCEPT ![i] = Answered(@, 200, TRUE, "", list)]
    /\ UNCHANGED <<contacts, seq, now, proc, created, removed, seeded, returned,
                   vin, vout, ui, mongo, answers>>

\* app.get('/api/contacts/search')
serveSearch(i) ==
    /\ net[i].method = "SEARCH" /\ net[i].pc = "sent"
    /\ \E list \in routeSearchContacts(net[i].arg.text # <<>>, net[i].arg.text) :
          net' = [net EXCEPT ![i] = Answered(@, 200, TRUE, "", list)]
    /\ UNCHANGED <<contacts, seq, now, proc, created, removed, seeded, returned,
                   vin, vout, ui, mongo, answers>>

\* app.post('/api/contacts'): the validation middleware, the lookup, the insert
servePost(i) ==
    /\ net[i].method = "POST" /\ net[i].pc = "sent"
    /\ LET body == validateContact(net[i].arg.name, net[i].arg.email)
           code == InsertCode(body.name, body.email)
           id == seq + 1
           table == contacts \cup
                      {[id |-> id, name |-> body.name, email |-> body.email,
                        created_at |-> now]}
       IN  IF ~body.ok
           THEN /\ net' = [net EXCEPT ![i] = Answered(@, 400, FALSE, "", <<>>)]
                /\ UNCHANGED <<contacts, seq, created>>
           ELSE IF getContactByEmail(body.email) # <<>>
                   \/ addContactError(code) = "Email already exists"
           THEN /\ net' = [net EXCEPT ![i] =
                             Answered(@, 409, FALSE,
                                      "A contact with this email already exists", <<>>)]
                /\ UNCHANGED <<contacts, seq, created>>
           ELSE IF code = "SQLITE_OK"
           THEN /\ contacts' = table
                /\ seq' = id
                /\ created' = created + 1
                /\ net' = [net EXCEPT ![i] =
                             Answered(@, 201, TRUE, "Contact added successfully",
                                      getContactById(table, toString(id)))]
           ELSE /\ net' = [net EXCEPT ![i] =
                             Answered(@, 500, FALSE, "Failed to add contact", <<>>)]
                /\ UNCHANGED <<contacts, seq, created>>
    /\ UNCHANGED <<now, proc, removed, seeded, returned, vin, vout, ui, mongo, answers>>

\* app.delete('/api/contacts/:id'); seen is the number of requests the
\* application had sent when the server ran this one
serveDelete(i) ==
    /\ net[i].method = "DELETE" /\ net[i].pc = "sent"
    /\ LET rows == DeletedRows(net[i].arg.text)
           status == deleteStatus(Cardinality(rows) > 0)
       IN  /\ contacts' = AfterDelete(rows)
           /\ removed' = IF Cardinality(rows) > 0 THEN removed + 1 ELSE removed
           /\ net' = [net EXCEPT ![i] =
                        [Answered(@, status, status = 200,
                                  IF status = 200 THEN "Contact deleted successfully"
                                  ELSE "Contact not found", <<>>)
                            EXCEPT !.seen = Len(net)]]
    /\ UNCHANGED <<seq, now, proc, created, seeded, returned, vin, vout, ui, mongo, answers>>

\* loadContacts after its await: the list is replaced, the loading flag dropped
loadContactsDone(i) ==
    /\ net[i].method = "GET" /\ net[i].pc = "answered"
    /\ net' = [net EXCEPT ![i].pc = "received"]
    /\ IF net[i].success
       THEN Update([ui EXCEPT !.allContacts = net[i].data, !.loading = FALSE], TRUE)
       ELSE Update([showMessage(ui, "Failed to load contacts", "error") EXCEPT
                       !.loading = FALSE], FALSE)
    /\ UNCHANGED <<contacts, seq, now, proc, created, removed, seeded, returned,
                   vin, vout, mongo, answers>>

\* onChange of the name field
setName(value) ==
    /\ value # ui.name
    /\ Update([ui EXCEPT !.name = value], FALSE)
    /\ UNCHANGED <<contacts, seq, now, proc, created, removed, seeded, returned,
                   vin, vout, net, mongo, answers>>

\* onChange of the email field
setEmail(value) ==
    /\ value # ui.email
    /\ Update([ui EXCEPT !.email = value], FALSE)
    /\ UNCHANGED <<contacts, seq, now, proc, created, removed, seeded, returned,
                   vin, vout, net, mongo, answers>>

\* App.addContact to its await: the two checks of the fields, then the POST
uiAddContact ==
    /\ IF Trim(ui.name) = <<>> \/ Trim(ui.email) = <<>>
       THEN /\ Update(showMessage(ui, "Please fill in both name and email", "error"), FALSE)
            /\ UNCHANGED net
       ELSE IF ~EmailTest(ui.email)
       THEN /\ Update(showMessage(ui, "Please enter a valid email address", "error"), FALSE)
            /\ UNCHANGED net
       ELSE /\ Room(2, MaxFormRequests)
            /\ net' = Append(net, Fetch("POST", [NoArg EXCEPT !.name = ui.name,
                                                             !.email = ui.email]))
            /\ UNCHANGED ui
    /\ UNCHANGED <<contacts, seq, now, proc, created, removed, seeded, returned,
                   vin, vout, mongo, answers>>

\* App.addContact after its await: on success the fields are cleared and the
\* list reloaded, otherwise the status or the answer's message picks the error
uiAddContactDone(i) ==
    /\ net[i].method = "POST" /\ net[i].pc = "answered"
    /\ IF net[i].success
       THEN /\ Update([showMessage(ui, "Contact added successfully!", "success") EXCEPT
                          !.name = <<>>, !.email = <<>>, !.loading = TRUE], FALSE)
            /\ net' = Append([net EXCEPT ![i].pc = "received"], Fetch("GET", NoArg))
       ELSE /\ Update(showMessage(ui,
                         IF net[i].status = 409
                         THEN "A contact with this email already exists"
                         ELSE IF net[i].message # "" THEN net[i].message
                         ELSE "Failed to add contact", "error"), FALSE)
            /\ net' = [net EXCEPT ![i].pc = "received"]
    /\ UNCHANGED <<contacts, seq, now, proc, created, removed, seeded, returned,
                   vin, vout, mongo, answers>>

\* The list on display: ContactList shows 'Loading contacts...' while loading
Displayed == IF ui.loading THEN <<>> ELSE ui.filteredContacts

\* App.deleteContact to its await, for the Delete button of a contact on
\* display, the confirm dialog accepted
uiDeleteContact(k) ==
    /\ k \in DOMAIN Displayed
    /\ Room(2, MaxListRequests)
    /\ net' = Append(net, Fetch("DELETE", [NoArg EXCEPT !.text = Displayed[k]._id]))
    /\ UNCHANGED <<contacts, seq, now, proc, created, removed, seeded, returned,
                   vin, vout, ui, mongo, answers>>

\* App.deleteContact after its await
uiDeleteContactDone(i) ==
    /\ net[i].method = "DELETE" /\ net[i].pc = "answered"
    /\ IF net[i].success
       THEN /\ Update([showMessage(ui, "Contact deleted successfully!", "success") EXCEPT
                          !.loading = TRUE], FALSE)
            /\ net' = Append([net EXCEPT ![i].pc = "received"], Fetch("GET", NoArg))
       ELSE /\ Update(showMessage(ui,
                         IF net[i].message # "" THEN net[i].message
                         ELSE "Failed to delete contact", "error"), FALSE)
            /\ net' = [net EXCEPT ![i].pc = "received"]
    /\ UNCHANGED <<contacts, seq, now, proc, created, removed, seeded, returned,
                   vin, vout, mongo, answers>>

\* App.searchContacts to its await, called by SearchBox on every change of the
\* field: a blank term shows every loaded contact and sends nothing
uiSearchContacts(term) ==
    /\ term # ui.searchTerm
    /\ IF Trim(term) = <<>>
       THEN /\ Update([ui EXCEPT !.searchTerm = term,
                                 !.filteredContacts = ui.allContacts], FALSE)
            /\ UNCHANGED net
       ELSE /\ Room(1, MaxListRequests)
            /\ Update([ui EXCEPT !.searchTerm = term], FALSE)
            /\ net' = Append(net, Fetch("SEARCH", [NoArg EXCEPT !.text = term]))
    /\ UNCHANGED <<contacts, seq, now, proc, created, removed, seeded, returned,
                   vin, vout, mongo, answers>>

\* App.searchContacts after its await
uiSearchContactsDone(i) ==
    /\ net[i].method = "SEARCH" /\ net[i].pc = "answered"
    /\ net' = [net EXCEPT ![i].pc = "received"]
    /\ IF net[i].success
       THEN Update([ui EXCEPT !.filteredContacts = net[i].data], FALSE)
       ELSE Update(showMessage(ui, "Search failed. Please try again.", "error"), FALSE)
    /\ UNCHANGED <<contacts, seq, now, proc, created, removed, seeded, returned,
                   vin, vout, mongo, answers>>

\* A second passes; the timer that runs out calls setMessage('')
timePasses ==
    /\ ui.timer > 0
    /\ LET aged == [ui EXCEPT !.timer = @ - 1, !.shown = @ + 1]
       IN  IF aged.timer = 0
           THEN ui' = [aged EXCEPT !.message = "", !.shown = 0]
           ELSE ui' = aged
    /\ UNCHANGED <<contacts, seq, now, proc, created, removed, seeded, returned,
                   vin, vout, net, mongo, answers>>

\* The application mounted: the first render, and loadContacts under way
Mounted == [NoApp EXCEPT !.loading = TRUE]

FormNames == {<<>>, Al, <<"A", "1">>}
FormEmails == {<<>>, E1, E2, <<"a", "@", "b">>}

\* The form on a table that holds one contact
InitForm ==
    /\ contacts = {[id |-> 1, name |-> Bo, email |-> E2, created_at |-> SeedTime]}
    /\ seq = 1
    /\ now = StartTime
    /\ proc = [p \in Procs |-> Idle]
    /\ created = 0 /\ removed = 0 /\ seeded = 1 /\ returned = {}
    /\ vin = NoCandidate /\ vout = NoVerdict
    /\ ui = Mounted
    /\ net = <<Fetch("GET", NoArg)>>
    /\ mongo = NoCollection
    /\ answers = NoCall

NextForm ==
    \/ \E value \in FormNames : setName(value)
    \/ \E value \in FormEmails : setEmail(value)
    \/ uiAddContact
    \/ \E i \in DOMAIN net : servePost(i)
    \/ \E i \in DOMAIN net : serveGetContacts(i)
    \/ \E i \in DOMAIN net : uiAddContactDone(i)
    \/ \E i \in DOMAIN net : loadContactsDone(i)
    \/ timePasses

SpecForm == InitForm /\ [][NextForm]_vars

\* The timers of the browser run: a second that can pass does pass
SpecFormLive == SpecForm /\ WF_vars(timePasses)

SearchTerms == {<<>>, <<" ">>, <<"a", "l">>, <<"b", "o">>}

\* The list on a table that holds two contacts, made a second apart
InitList ==
    /\ contacts = {[id |-> 1, name |-> Al, email |-> E1, created_at |-> SeedTime],
                   [id |-> 2, name |-> Bo, email |-> E2, created_at |-> StartTime]}
    /\ seq = 2
    /\ now = StartTime
    /\ proc = [p \in Procs |-> Idle]
    /\ created = 0 /\ removed = 0 /\ seeded = 2 /\ returned = {}
    /\ vin = NoCandidate /\ vout = NoVerdict
    /\ ui = Mounted
    /\ net = <<Fetch("GET", NoArg)>>
    /\ mongo = NoCollection
    /\ answers = NoCall

NextList ==
    \/ \E term \in SearchTerms : uiSearchContacts(term)
    \/ \E k \in 1..MaxId : uiDeleteContact(k)
    \/ \E i \in DOMAIN net : serveSearch(i)
    \/ \E i \in DOMAIN net : serveDelete(i)
    \/ \E i \in DOMAIN net : serveGetContacts(i)
    \/ \E i \in DOMAIN net : uiSearchContactsDone(i)
    \/ \E i \in DOMAIN net : uiDeleteContactDone(i)
    \/ \E i \in DOMAIN net : loadContactsDone(i)

SpecList == InitList /\ [][NextList]_vars

----------------------------------------------------------------------------
(* Properties                                                              *)

Started(p) == proc[p].pc = "idle" /\ proc'[p].pc # "idle"

FinishedCreate(r) == r.pc = "done" /\ r.op = "create"

\* The outcomes of a create, as the service throws them and the route answers them
ValidationFailed(r) ==
    IF r.entry = "service" THEN r.error = "Validation failed" ELSE r.status = 400
DuplicateEmail(r) ==
    IF r.entry = "service" THEN r.error = "Email already exists" ELSE r.status = 409

\* The insert was attempted after the lookup found nothing, and was refused
\* while a row with the request's email is stored
LostRace(r) ==
    /\ FinishedCreate(r)
    /\ r.calls = <<"getContactByEmail", "addContact">>
    /\ r.result = <<>>
    /\ \E row \in contacts : row.email = r.email

\* C1: in every reachable state no two stored contacts have the same email.
EmailUnique ==
    \A r1, r2 \in contacts : r1.email = r2.email => r1 = r2

\* C1 witness: after creates and a delete, several contacts are stored.
EmailUniqueWitness ==
    /\ created >= 1
    /\ Cardinality(contacts) >= 2
    /\ \E p \in Procs :
          proc[p].pc = "done" /\ proc[p].op = "delete" /\ proc[p].deleted

\* C2: a create whose insert is refused because a concurrent create stored the
\* same email after both lookups found nothing ends as DuplicateEmail ('Email
\* already exists', 409 at the route), never as a storage fault, and the email
\* is stored once.
RaceLoserGetsDuplicateEmail ==
    \A p \in Procs :
        LostRace(proc[p]) =>
            /\ DuplicateEmail(proc[p])
            /\ proc[p].status # 500
            /\ Cardinality({row \in contacts : row.email = proc[p].email}) = 1

\* C2 witness: a create lost the race and was answered DuplicateEmail.
RaceLoserWitness ==
    \E p \in Procs : LostRace(proc[p]) /\ ~proc[p].stored /\ DuplicateEmail(proc[p])

\* C3 as stated: a service create of an email that is stored fails with
\* DuplicateEmail after the lookup alone, whatever the name.
DuplicateEmailWhateverName ==
    \A p \in Procs :
        (FinishedCreate(proc[p]) /\ proc[p].entry = "service" /\ proc[p].stored) =>
            /\ DuplicateEmail(proc[p])
            /\ proc[p].calls = <<"getContactByEmail">>

\* C3 amended: a service create of an email that is stored, with a name that
\* passes validation, fails with DuplicateEmail, makes no insert attempt and
\* leaves the stored contacts unchanged.
DuplicateEmailRefused ==
    [][\A p \in Procs :
          (/\ Started(p)
           /\ proc'[p].op = "create"
           /\ proc'[p].entry = "service"
           /\ proc'[p].stored
           /\ NameErrors(proc'[p].name) = <<>>) =>
              /\ proc'[p].pc = "done"
              /\ DuplicateEmail(proc'[p])
              /\ proc'[p].calls = <<"getContactByEmail">>
              /\ contacts' = contacts]_vars

\* C3 witness: a create with another name than the stored contact's was
\* refused as DuplicateEmail.
DuplicateEmailRefusedWitness ==
    \E p \in Procs :
        /\ FinishedCreate(proc[p]) /\ proc[p].entry = "service" /\ proc[p].stored
        /\ DuplicateEmail(proc[p])
        /\ \E row \in contacts : row.email = proc[p].email /\ row.name # proc[p].name

DigitOrSymbol(name) ==
    \E i \in DOMAIN name : name[i] \notin Letters \cup WhiteSpace

ValidCreateSucceeds ==
    \A p \in Procs :
        (/\ FinishedCreate(proc[p])
         /\ proc[p].entry = "service"
         /\ validate(proc[p].name, proc[p].email).isValid
         /\ ~\E row \in contacts : row.email = proc[p].email /\ proc[p].result = <<>>) =>
            /\ proc[p].result # <<>>
            /\ proc[p].result[1].email = proc[p].email
            /\ proc[p].result[1]._id # <<>>
            /\ proc[p].result[1].createdAt >= NewDate(StartTime)

\* The validation rules of the data model: 1 to 50 letters and spaces
NameRule(name) ==
    /\ name # <<>>
    /\ Len(name) <= MaxNameLength
    /\ \A i \in DOMAIN name : name[i] \in Letters \cup {" "}

\* C6: in every reachable state every stored contact's name and email pass the
\* validation rules.
StoredContactsValid ==
    \A row \in contacts : NameRule(row.name) /\ EmailRegex(row.email)

\* C10: the service's search with an empty or whitespace-only query returns
\* the contacts getAll returns in that state.
BlankSearchIsGetAll ==
    [][\A p \in Procs :
          (/\ Started(p)
           /\ proc'[p].op = "search"
           /\ Trim(proc'[p].arg) = <<>>) =>
              /\ proc'[p].pc = "done"
              /\ proc'[p].result \in svcGetAllContacts
              /\ Range(proc'[p].result) = {toJSON(Canon(row)) : row \in contacts}]_vars

\* C10 witness: a whitespace-only search returned the stored contacts.
BlankSearchWitness ==
    \E p \in Procs :
        /\ proc[p].pc = "done" /\ proc[p].op = "search"
        /\ proc[p].arg # <<>> /\ Trim(proc[p].arg) = <<>>
        /\ Len(proc[p].result) >= 2

NameMessages ==
    {"Name is required", "Name must be less than 50 characters",
     "Name must only contain letters and spaces",
     "Name must be between 1 and 50 characters"}

NameAccepted(errors) == ~\E i \in DOMAIN errors : errors[i] \in NameMessages

LettersAndSpaces(name) == \A i \in DOMAIN name : name[i] \in Letters \cup {" "}

LengthInRange(name) == Len(name) >= 1 /\ Len(name) <= MaxNameLength

\* C7: name validation, in Contact.validate and in the HTTP validator, rejects
\* every name with a character outside {A-Z, a-z, space}, a tab or newline
\* included.
NameOutsideClassRejected ==
    ~LettersAndSpaces(vin.name) =>
        /\ \A v \in vout.model : ~NameAccepted(v.errors)
        /\ \A h \in vout.http : ~NameAccepted(h.errors)

\* C8: Contact.validate returns isValid exactly when its error list is empty,
\* and its verdict for a candidate is the same whether or not the candidate's
\* email is stored when it runs.
ValidateVerdictPure ==
    /\ \A v \in vout.model : v.isValid <=> (v.errors = <<>>)
    /\ Cardinality(vout.model) <= 1

\* C8 witness: a valid candidate was validated both before and after its email
\* was stored.
ValidateVerdictWitness ==
    /\ vout.seen = {TRUE, FALSE}
    /\ \E v \in vout.model : v.isValid

\* C9 as stated: a name of letters and spaces only is accepted exactly when its
\* length is 1 to 50, alike by Contact.validate, the HTTP validator and the
\* table constraint.
NameLengthAgreed ==
    LettersAndSpaces(vin.name) =>
        /\ \A v \in vout.model : NameAccepted(v.errors) <=> LengthInRange(vin.name)
        /\ \A h \in vout.http : NameAccepted(h.errors) <=> LengthInRange(vin.name)
        /\ \A t \in vout.table : t.name <=> LengthInRange(vin.name)

\* C9 amended: a name of letters and spaces only with no space at either end
\* is accepted exactly when its length is 1 to 50, alike by Contact.validate,
\* the HTTP validator and the table constraint.
NameLengthAgreedTrimmed ==
    (LettersAndSpaces(vin.name) /\ Trim(vin.name) = vin.name) =>
        /\ \A v \in vout.model : NameAccepted(v.errors) <=> LengthInRange(vin.name)
        /\ \A h \in vout.http : NameAccepted(h.errors) <=> LengthInRange(vin.name)
        /\ \A t \in vout.table : t.name <=> LengthInRange(vin.name)

\* C9 witness: a name of exactly 50 letters went through all three and was
\* accepted by each.
NameLengthWitness ==
    /\ LettersAndSpaces(vin.name) /\ Len(vin.name) = MaxNameLength
    /\ \E v \in vout.model : NameAccepted(v.errors)
    /\ \E h \in vout.http : NameAccepted(h.errors)
    /\ \E t \in vout.table : t.name

Finished(r, ops) == r.pc = "done" /\ r.op \in ops

\* C11: GET /api/contacts/search with no q, an empty q or a whitespace-only q
\* answers 200 with an empty data array and asks the database nothing,
\* whatever contacts are stored.
BlankRouteSearchEmpty ==
    [][\A p \in Procs :
          (/\ Started(p)
           /\ proc'[p].op = "getSearch"
           /\ (~proc'[p].given \/ Trim(proc'[p].arg) = <<>>)) =>
              /\ proc'[p].pc = "done"
              /\ proc'[p].status = 200
              /\ proc'[p].result = <<>>
              /\ proc'[p].calls = <<>>
              /\ contacts' = contacts]_vars

\* C11 witness: a whitespace-only q was answered with no rows while several
\* contacts are stored.
BlankRouteSearchWitness ==
    \E p \in Procs :
        /\ Finished(proc[p], {"getSearch"})
        /\ proc[p].given /\ proc[p].arg # <<>> /\ Trim(proc[p].arg) = <<>>
        /\ proc[p].result = <<>> /\ proc[p].status = 200
        /\ Cardinality(contacts) >= 2

\* s contains q as a literal substring, letters without regard to case
Contains(q, s) ==
    \E k \in 0..(Len(s) - Len(q)) :
        ToLowerCase(SubSeq(s, k + 1, k + Len(q))) = ToLowerCase(q)

\* C12: a search with a non-blank query returns exactly the stored contacts
\* whose name or email contains the query as a case-insensitive literal
\* substring, % and _ matched literally.
SearchLiteralSubstring ==
    \A p \in Procs :
        (Finished(proc[p], {"search", "getSearch"}) /\ Trim(proc[p].arg) # <<>>) =>
            Range(proc[p].result) =
                {toJSON(Canon(row)) : row \in
                    {r \in contacts : \/ Contains(Trim(proc[p].arg), r.name)
                                      \/ Contains(Trim(proc[p].arg), r.email)}}

\* C13: delete(id) returns false and changes nothing when no stored contact has
\* that id; when one has, it returns true and getById(id) then finds nothing.
DeleteByStoredId ==
    [][\A p \in Procs :
          (Started(p) /\ proc'[p].op = "delete") =>
              IF \E row \in contacts : Canon(row)._id = proc'[p].arg
              THEN /\ proc'[p].deleted
                   /\ getContactById(contacts', proc'[p].arg) = <<>>
              ELSE /\ ~proc'[p].deleted
                   /\ contacts' = contacts]_vars

\* C14: getById of the id a successful create returned, while that contact is
\* not deleted, returns a contact identical to the returned one in id, name,
\* email and createdAt.
RoundTrip ==
    [][\A p \in Procs :
          (Started(p) /\ proc'[p].op = "getById") =>
              \A c \in returned :
                  c._id = proc'[p].arg => proc'[p].result = <<c>>]_vars

\* C14 witness: a created contact was fetched by its id at a later clock
\* reading than its creation.
RoundTripWitness ==
    \E p \in Procs :
        /\ Finished(proc[p], {"getById"})
        /\ proc[p].result # <<>>
        /\ proc[p].result[1] \in returned
        /\ proc[p].result[1].createdAt < NewDate(now)

\* C15: for an identifier string that is the string form of no assigned id,
\* getById finds nothing and delete removes nothing and returns false, neither
\* with a storage error.
MalformedIdNotFound ==
    [][\A p \in Procs :
          (/\ Started(p)
           /\ proc'[p].op \in {"getById", "delete"}
           /\ ~\E i \in 1..seq : toString(i) = proc'[p].arg) =>
              /\ proc'[p].result = <<>>
              /\ ~proc'[p].deleted
              /\ proc'[p].status # 500
              /\ contacts' = contacts]_vars

\* Ids are assigned in the order of creation: of two contacts the one created
\* later has the larger id
CreatedLater(c1, c2) == ParseInt(c1._id).val > ParseInt(c2._id).val

\* C16: getAll and search return contacts newest first: of any two returned
\* contacts the one created later comes first, also when both were created
\* within the same second.
NewestFirst ==
    \A p \in Procs :
        Finished(proc[p], {"getAll", "search", "getSearch"}) =>
            \A i, j \in DOMAIN proc[p].result :
                i < j => CreatedLater(proc[p].result[i], proc[p].result[j])

\* C17: POST /api/contacts answers 400 with an error list and no database call
\* when the body fails validation, 409 with nothing inserted when the email is
\* stored, and otherwise 201 with the created contact; a request gets exactly
\* one of the three and no other status.
PostOutcomes ==
    \A p \in Procs :
        (FinishedCreate(proc[p]) /\ proc[p].entry = "route") =>
            LET r == proc[p]
            IN  /\ r.status \in {400, 409, 201}
                /\ (r.status = 400) <=> (r.errors # <<>>)
                /\ r.status = 400 => r.calls = <<>>
                /\ (r.errors = <<>> /\ r.stored) => r.status = 409
                /\ r.status = 409 =>
                      /\ r.result = <<>>
                      /\ \E row \in contacts : row.email = r.email
                /\ r.status = 201 =>
                      /\ r.result # <<>>
                      /\ r.result[1].name = r.name
                      /\ r.result[1].email = r.email

ReadOps == {"getAll", "getById", "getByEmail", "search", "getSearch", "count"}

\* C19: no step changes the id, name, email or created_at of a contact that
\* stays stored; the reads leave the table as it is, a create adds at most one
\* row and removes none, a delete removes at most one row and adds none.
StoredContactsFrame ==
    [][/\ \A r1 \in contacts, r2 \in contacts' : r1.id = r2.id => r1 = r2
       /\ \A p \in Procs :
             /\ (Started(p) /\ proc'[p].op \in ReadOps \cup {"create"}) =>
                   contacts' = contacts
             /\ (Started(p) /\ proc'[p].op = "delete") =>
                   /\ contacts' \subseteq contacts
                   /\ Cardinality(contacts \ contacts') <= 1
             /\ (proc[p].pc = "checked" /\ proc'[p].pc = "done") =>
                   /\ contacts \subseteq contacts'
                   /\ Cardinality(contacts' \ contacts) <= 1
       /\ (\A p \in Procs : proc'[p].pc \in {proc[p].pc, "idle"}) =>
             contacts' = contacts]_vars

\* C19 witness: a contact is still stored, as it was created, after a later
\* create, a delete of another contact and a read.
StoredContactsFrameWitness ==
    /\ created >= 2 /\ removed >= 1
    /\ \E c \in returned : c.createdAt < NewDate(now)
    /\ \E p \in Procs : Finished(proc[p], ReadOps) /\ proc[p].result # <<>>

\* C20: in every reachable state count() is the number of contacts getAll
\* returns, and is the seeded rows plus the successful creates minus the
\* deletes that returned true.
CountIsCreatesLessDeletes ==
    /\ getContactCount = seeded + created - removed
    /\ \A p \in Procs :
          /\ Finished(proc[p], {"getAll"}) => Len(proc[p].result) = getContactCount
          /\ Finished(proc[p], {"count"}) => proc[p].count = seeded + created - removed

\* C20 witness: count() was answered after creates and a delete on a seeded table.
CountWitness ==
    \E p \in Procs :
        /\ Finished(proc[p], {"count"})
        /\ proc[p].count >= 1
        /\ seeded >= 1 /\ created >= 1 /\ removed >= 1

\* The contacts of an answer without their identifiers and timestamps
Shapes(answer) ==
    {[idType |-> c._id.type, name |-> c.name, email |-> c.email] : c \in answer.contacts}

\* C21: for the same sequence of calls the SQLite and the MongoDB adapter give
\* the same outcomes and contacts of the same canonical shape, the identifier
\* a string in both.
AdaptersAgree ==
    /\ answers.sqlite.kind = answers.mongodb.kind
    /\ Shapes(answers.sqlite) = Shapes(answers.mongodb)
    /\ \A c \in answers.sqlite.contacts \cup answers.mongodb.contacts :
          c._id.type = "string"

NameMessage ==
    "Name should only contain letters and spaces. Numbers and symbols are not allowed."

\* A name with a character that is neither a letter nor a space
HasDigitOrSymbol(name) == \E i \in DOMAIN name : name[i] \notin Letters \cup WhiteSpace

\* text@text.text: some text, an @, some text, a dot, some text
TextAtTextDotText(email) ==
    \E at \in DOMAIN email, dot \in DOMAIN email :
        /\ email[at] = "@" /\ email[dot] = "."
        /\ 1 < at /\ at + 1 < dot /\ dot < Len(email)

\* C22: a form submitted with a digit or symbol in the name and a well-formed
\* email shows the name error in the message area, at the click or, when the
\* form was posted, at the latest when the answer is in.
NameErrorInMessageArea ==
    [][ /\ (uiAddContact /\ HasDigitOrSymbol(ui.name) /\ EmailTest(ui.email))
            => (ui'.message = NameMessage \/ net' # net)
        /\ \A i \in DOMAIN net :
              (uiAddContactDone(i) /\ HasDigitOrSymbol(net[i].arg.name))
                  => ui'.message = NameMessage ]_vars

\* What a refused submit leaves alone: nothing is sent, the fields, the lists
\* and the stored contacts stay
SubmitRefused ==
    /\ net' = net
    /\ ui'.name = ui.name /\ ui'.email = ui.email
    /\ ui'.allContacts = ui.allContacts
    /\ ui'.filteredContacts = ui.filteredContacts
    /\ contacts' = contacts

\* C23: a submit with a blank name or a blank email shows 'Please fill in both
\* name and email', one with an email that is not text@text.text shows 'Please
\* enter a valid email address'; neither sends a POST nor changes the fields
\* or the list.
BlankOrBadEmailRefused ==
    [][ uiAddContact =>
          /\ (Trim(ui.name) = <<>> \/ Trim(ui.email) = <<>>)
                => /\ ui'.message = "Please fill in both name and email"
                   /\ ui'.messageType = "error"
                   /\ SubmitRefused
          /\ (Trim(ui.name) # <<>> /\ Trim(ui.email) # <<>>
              /\ ~TextAtTextDotText(ui.email))
                => /\ ui'.message = "Please enter a valid email address"
                   /\ ui'.messageType = "error"
                   /\ SubmitRefused ]_vars

BlankOrBadEmailWitness ==
    /\ ui.message = "Please enter a valid email address"
    /\ Trim(ui.name) # <<>> /\ Trim(ui.email) # <<>>
    /\ ~TextAtTextDotText(ui.email)
    /\ \A i \in DOMAIN net : net[i].method # "POST"

Messages ==
    {"Please fill in both name and email", "Please enter a valid email address",
     "Contact added successfully!", "A contact with this email already exists",
     "Failed to add contact", "Failed to load contacts"}

\* C27: a message on display goes: it is cleared when it has been the message
\* for 3 seconds, never sooner and never later, whatever message it replaced,
\* and every message shown is in the end hidden or replaced.
MessageHidden ==
    /\ [][(ui.message # "" /\ ui'.message = "") => ui.shown + 1 = HideAfter]_vars
    /\ [](ui.message # "" => ui.shown < HideAfter)
    /\ \A m \in Messages : (ui.message = m) ~> (ui.message # m)

MessageHiddenWitness ==
    /\ ui.message = "A contact with this email already exists"
    /\ ui.shown + 1 = HideAfter

\* C24: with a blank search term and no request pending, the list on display
\* is the full list of loaded contacts.
BlankTermShowsAll ==
    (Trim(ui.searchTerm) = <<>> /\ Pending = {})
        => ui.filteredContacts = ui.allContacts

\* The search requests sent so far
Searches == {i \in DOMAIN net : net[i].method = "SEARCH"}

\* C25: with a search term in the field and the answers of all requests in,
\* the list on display is the answer to the search sent last, the one for the
\* term in the field.
LatestSearchDisplayed ==
    (Trim(ui.searchTerm) # <<>> /\ Pending = {} /\ Searches # {})
        => LET latest == net[SetMax(Searches)]
           IN  /\ latest.arg.text = ui.searchTerm
               /\ ui.filteredContacts = latest.data

\* C26: with every request finished, the reloads after the deletes among them,
\* no contact a delete answered 200 for is on display.
DeletedNotDisplayed ==
    Pending = {} =>
        \A k \in DOMAIN Displayed : \A i \in DOMAIN net :
            (net[i].method = "DELETE" /\ net[i].status = 200)
                => Displayed[k]._id # net[i].arg.text

\* Two DELETE requests for one id, the second sent before the server ran the
\* first, and both answered
Concurrent(i, j) ==
    /\ i < j
    /\ net[i].method = "DELETE" /\ net[j].method = "DELETE"
    /\ net[i].arg.text = net[j].arg.text
    /\ net[i].pc # "sent" /\ net[j].pc # "sent"
    /\ net[i].seen >= j

\* C30: of two concurrent DELETE requests for an id that is stored when they
\* run, one is answered 200 and the other 404, none 500, and the row is gone,
\* removed once.
ConcurrentDeletes ==
    \A i \in DOMAIN net, j \in DOMAIN net :
        (/\ Concurrent(i, j)
         /\ \A k \in DOMAIN net \ {i, j} :
               ~(net[k].method = "DELETE" /\ net[k].arg.text = net[i].arg.text
                 /\ net[k].status = 200))
            => /\ {net[i].status, net[j].status} = {200, 404}
               /\ ~\E r \in contacts : toString(r.id) = net[i].arg.text
               /\ removed = Cardinality({k \in DOMAIN net : net[k].method = "DELETE"
                                                            /\ net[k].status = 200})

ConcurrentDeletesWitness ==
    \E i \in DOMAIN net, j \in DOMAIN net :
        Concurrent(i, j) /\ net[i].pc = "received" /\ net[j].pc = "received"

\* C28: a contact that was created and deleted can be created again with the
\* same email, and the contact created k-th gets the k-th id after those the
\* table started with, whatever was deleted before: no id is given twice.
EmailFreeAfterDelete ==
    /\ (removed >= 1 /\ ~CandidateStored)
          => /\ validate(vin.name, vin.email).isValid
             /\ getContactByEmail(vin.email) = <<>>
             /\ InsertCode(vin.name, vin.email) = "SQLITE_OK"
    /\ \A r \in contacts : r.email = vin.email => r.id = seeded + created

EmailFreeAfterDeleteWitness ==
    /\ created = 2 /\ removed >= 1
    /\ \E r \in contacts : r.email = vin.email /\ r.id = seeded + 2

\* C29: a delete that returns true removes the contact with the id it was
\* given, that one only, and the count drops by one; a delete that returns
\* false leaves the stored contacts as they were.
DeleteRemovesItsId ==
    [][\A p \in Procs :
          (Started(p) /\ proc'[p].op = "delete") =>
              IF proc'[p].deleted
              THEN /\ contacts' \subseteq contacts
                   /\ contacts \ contacts' =
                         {r \in contacts : Canon(r)._id = proc'[p].arg}
                   /\ Cardinality(contacts') = Cardinality(contacts) - 1
              ELSE contacts' = contacts]_vars

====
